---- MODULE Spec2Model ----
(***************************************************************************)
(* Model of the @spirex/matcher evaluation engine (the context-stack       *)
(* version of matcher(), src/unnamed/part_001 lines 78-250).               *)
(*                                                                         *)
(* One evaluator is one state machine.  The caller (and every branch       *)
(* delegate, which is caller code running between the push and the pop of  *)
(* applyMatchedCase) issues one method call per step.  JavaScript values   *)
(* are encoded as follows:                                                 *)
(*   - a case key is a string, U stands for `undefined`;                   *)
(*   - a context object is [id, data]: id is the object identity, data a   *)
(*     function from the object's own keys to values;                      *)
(*   - a context value is [t, n]: the type tag and a number.               *)
(***************************************************************************)
EXTENDS Integers, Sequences, FiniteSets, TLC

\* ------------------------------------------------------------------ bounds
MaxOps == 3        \* state-changing method calls issued on one evaluator
MaxDepth == 2      \* nesting depth of branch delegates
MaxNum == 2        \* largest integer given to a number comparator as min or max

\* ------------------------------------------------------------ value domain
U == "<undefined>"                       \* the JavaScript value undefined
Null == "<null>"                         \* null where a case key is expected
Zero == "<0>"                            \* the number 0 where a case key is expected
False == "<false>"                       \* false where a result is expected
BranchDelegate == "<function>"           \* a match target that is a function
CaseKeys == {"", "A", "B"}               \* plain case keys (the empty string is falsy)
Targets == CaseKeys \cup {BranchDelegate}
\* resolvers given to resolve: (c, k) => k and (c) => (c.foo === 2 ? "r2" : "r1")
Resolvers == {"resolverKey", "resolverFoo"}

Num(n) == [t |-> "number", n |-> n]
Undef == [t |-> "undefined", n |-> 0]
NaN == [t |-> "NaN", n |-> 0]
NegZero == [t |-> "-0", n |-> 0]           \* Num(0) is +0

EmptyData == [k \in {} |-> Undef]
Obj(i, d) == [id |-> i, data |-> d]
undefinedObj == Obj(-1, EmptyData)       \* `undefined` where an object is expected
nullObj == Obj(-2, EmptyData)            \* `null` where an object is expected

IsNullish(o) == o.id < 0

\* JavaScript truthiness of a case key / of an object reference
Truthy(k) == k \notin {U, "", Null, Zero, False}
TruthyObj(o) == ~IsNullish(o)

\* typeof caseOrBranch === "function"
IsFunction(t) == t = BranchDelegate \/ t \in Resolvers

\* obj[key]: undefined when the key is not an own key
Get(o, k) == IF k \in DOMAIN o.data THEN o.data[k] ELSE Undef

\* the own keys and values of { ...a, ...b }  (null and undefined spread to nothing)
Spread(a, b) ==
    [k \in (DOMAIN a.data) \cup (DOMAIN b.data) |->
        IF k \in DOMAIN b.data THEN b.data[k] ELSE a.data[k]]

\* ------------------------------------------------------- caller's objects
CtxFoo1 == Obj(1, [k \in {"foo"} |-> Num(1)])
ExtFoo2 == Obj(2, [k \in {"foo"} |-> Num(2)])

InitialContexts == {undefinedObj, CtxFoo1}
Extensions == {nullObj, undefinedObj, ExtFoo2}

\* ------------------------------------------------ caller-supplied callbacks
\* predicates passed to matchCase: () => true, (c) => c.foo === 1
Predicates == {"always", "fooIs1"}
Predicate(f, c) ==
    CASE f = "always" -> TRUE
      [] f = "fooIs1" -> Get(c, "foo") = Num(1)
\* c.foo is a TypeError when c is undefined or null
PredicateThrows(f, c) == f = "fooIs1" /\ IsNullish(c)

\* selectors passed to selectCase: () => "A", () => "", () => undefined,
\* () => null, () => 0, (c) => (c.foo === 1 ? "B" : undefined)
Selectors == {"selA", "selEmpty", "selUndef", "selNull", "selZero", "selFoo"}
Selector(f, c) ==
    CASE f = "selA" -> "A"
      [] f = "selEmpty" -> ""
      [] f = "selUndef" -> U
      [] f = "selNull" -> Null
      [] f = "selZero" -> Zero
      [] f = "selFoo" -> IF Get(c, "foo") = Num(1) THEN "B" ELSE U
SelectorThrows(f, c) == f = "selFoo" /\ IsNullish(c)

\* case maps passed to selectCase; NoMap is an omitted caseMap
NoMap == [k \in {} |-> U]
CaseMaps ==
    { NoMap,
      [k \in {"A"} |-> "B"],
      [k \in {"A", "B"} |-> BranchDelegate],
      [k \in {"A"} |-> ""] }
\* caseMap[caseKey]: undefined when the key is absent
Lookup(m, k) == IF k \in DOMAIN m THEN m[k] ELSE U
\* the property name obj[k] reads: a key that is no string is converted, so
\* obj[undefined] is obj["undefined"]
ToPropertyKey(k) ==
    CASE k = U -> "undefined"
      [] k = Null -> "null"
      [] k = Zero -> "0"
      [] k = False -> "false"
      [] OTHER -> k

\* what a resolver returns, and when its read of c.foo is a TypeError
Resolver(f, c, k) ==
    CASE f = "resolverKey" -> k
      [] f = "resolverFoo" -> IF Get(c, "foo") = Num(2) THEN "r2" ELSE "r1"
ResolverThrows(f, c) == f = "resolverFoo" /\ IsNullish(c)

\* result maps passed to resolve; NoResultMap is an omitted resultMap
NoResultMap == [given |-> FALSE, m |-> NoMap]
ResultMap(m) == [given |-> TRUE, m |-> m]
ResultMaps ==
    { NoResultMap,
      ResultMap(NoMap),
      ResultMap([k \in {"A", "B"} |-> IF k = "A" THEN "r1" ELSE "r2"]),
      ResultMap([k \in {"", "A", "B"} |-> IF k = "A" THEN Zero ELSE IF k = "B" THEN False ELSE ""]),
      ResultMap([k \in {"", "A", "B"} |->
                    IF k = "A" THEN "resolverKey" ELSE IF k = "B" THEN "resolverFoo" ELSE "r1"]),
      ResultMap([k \in {"undefined", "A"} |-> IF k = "A" THEN "r1" ELSE "r2"]) }
\* fallbacks passed to resolve; U is an omitted fallback
Fallbacks == {U, "fb", Zero, "resolverKey", "resolverFoo"}

\* matchCase guards: [type |-> typeof input, ...]
\* a pattern leaf is a literal value or a comparator made by matcher.number(options)
NoOptions ==
    [given |-> FALSE, hasMin |-> FALSE, min |-> 0, hasMax |-> FALSE, max |-> 0,
     integer |-> FALSE, finite |-> FALSE]
Leaf(v) == [cmp |-> "none", v |-> v, opt |-> NoOptions]
NumberLeaf(options) == [cmp |-> "number", v |-> Undef, opt |-> options]
BoolGuard(b) == [type |-> "boolean", b |-> b, f |-> "", isNull |-> FALSE, pattern |-> EmptyData]
FnGuard(f) == [type |-> "function", b |-> FALSE, f |-> f, isNull |-> FALSE, pattern |-> EmptyData]
PatternGuard(p) == [type |-> "object", b |-> FALSE, f |-> "", isNull |-> FALSE, pattern |-> p]
NullGuard == [type |-> "object", b |-> FALSE, f |-> "", isNull |-> TRUE, pattern |-> EmptyData]
UndefinedGuard == [type |-> "undefined", b |-> FALSE, f |-> "", isNull |-> FALSE, pattern |-> EmptyData]
\* a guard that is a non-empty string or a non-zero number
StringGuard == [type |-> "string", b |-> FALSE, f |-> "", isNull |-> FALSE, pattern |-> EmptyData]
NumberGuard == [type |-> "number", b |-> FALSE, f |-> "", isNull |-> FALSE, pattern |-> EmptyData]
Patterns ==
    { EmptyData,
      [k \in {"foo"} |-> Leaf(Num(1))] }
Guards ==
    {BoolGuard(b) : b \in BOOLEAN} \cup {FnGuard(f) : f \in Predicates}
        \cup {PatternGuard(p) : p \in Patterns} \cup {NullGuard, UndefinedGuard}

\* the contexts, pattern leaves and guards of the guard-dispatch specification
GuardContexts ==
    {undefinedObj, Obj(1, EmptyData), Obj(1, [k \in {"bar"} |-> Num(2)])}
        \cup {Obj(1, [k \in {"foo"} |-> v]) : v \in {Undef, Num(0), Num(1), NegZero, NaN}}
        \cup {Obj(1, [k \in {"foo", "bar"} |-> IF k = "foo" THEN v ELSE Num(2)]) :
                v \in {Num(0), Num(1), NaN}}
MinOnly(n) == [NoOptions EXCEPT !.given = TRUE, !.hasMin = TRUE, !.min = n]
MaxOnly(n) == [NoOptions EXCEPT !.given = TRUE, !.hasMax = TRUE, !.max = n]
FooLeaves ==
    {Leaf(v) : v \in {Undef, Num(0), Num(1), NegZero, NaN}}
        \cup {NumberLeaf(NoOptions), NumberLeaf(MinOnly(1)), NumberLeaf(MaxOnly(0))}
BarLeaves == {Leaf(Num(2)), Leaf(Undef)}
GuardPatterns ==
    {EmptyData}
        \cup {[k \in {"foo"} |-> l] : l \in FooLeaves}
        \cup {[k \in {"bar"} |-> l] : l \in BarLeaves}
        \cup {[k \in {"foo", "bar"} |-> IF k = "foo" THEN l[1] ELSE l[2]] :
                l \in FooLeaves \X BarLeaves}
GuardInputs ==
    {BoolGuard(b) : b \in BOOLEAN} \cup {FnGuard(f) : f \in Predicates}
        \cup {PatternGuard(p) : p \in GuardPatterns}
        \cup {NullGuard, UndefinedGuard, StringGuard, NumberGuard}

\* the options and the values of the number-comparator specification
Str(n) == [t |-> "string", n |-> n]
NumberOptions ==
    {NoOptions}
        \cup {[given |-> TRUE,
               hasMin |-> hasMin, min |-> IF hasMin THEN min ELSE 0,
               hasMax |-> hasMax, max |-> IF hasMax THEN max ELSE 0,
               integer |-> integer, finite |-> finite] :
                hasMin \in BOOLEAN, hasMax \in BOOLEAN,
                min \in -1 .. MaxNum, max \in -1 .. MaxNum,
                integer \in BOOLEAN, finite \in BOOLEAN}
NumberValues ==
    {Num(n) : n \in -2 .. MaxNum + 1} \cup {NegZero, NaN, Undef, Str(1)}
NoProbe == [options |-> NoOptions, value |-> Undef, done |-> FALSE, result |-> FALSE]

\* mappers passed to mapContext: (c) => c and (c) => ({ bar: c.foo })
Mappers == {"identity", "rename"}
\* merge delegates passed to unwrap; "none" is an omitted delegate:
\* (c, o) => ({ ...o, ...c }), (c, o) => ({ ...o }) and (c, o) => o
MergeDelegates == {"none", "assign", "origin", "parent"}
MergeData(d, c, o) ==
    CASE d = "assign" -> Spread(o, c)
      [] d = "origin" -> Spread(o, undefinedObj)
      [] d = "parent" -> o.data

\* ------------------------------------------------------------------- state
VARIABLES
    matchedCase,    \* the case slot
    contextStack,   \* the context layers, root first
    context,        \* the argument of matcher()
    frames,         \* the branch delegates being executed, outermost first
    call,           \* the last method call: arguments, callbacks invoked, result
    ghost,          \* history kept for the properties
    nOps,           \* method calls issued so far
    peer,           \* the case slot and context stack of a second evaluator,
                    \* made by another matcher(context) call on the same argument
    probe           \* a comparator made by matcher.number, the value it is given
                    \* and the result of its test

vars == <<matchedCase, contextStack, context, frames, call, ghost, nOps, peer, probe>>

\* object identities: the identities in use, and a fresh one for a new object
IdPool == 10 .. (10 + 3 * MaxDepth + 8)
UsedIds ==
    {contextStack[i].id : i \in 1 .. Len(contextStack)}
        \cup {call.pre.stack[i].id : i \in 1 .. Len(call.pre.stack)}
        \cup {call.retObj.id, call.a1.id, call.a2.id, call.frame.entry.id, call.frame.last.id}
        \cup {ghost.hist[i].entry.id : i \in 1 .. Len(ghost.hist)}
        \cup {ghost.hist[i].last.id : i \in 1 .. Len(ghost.hist)}
        \cup {peer.stack[i].id : i \in 1 .. Len(peer.stack)}
FreshId == CHOOSE i \in IdPool : i \notin UsedIds /\ \A j \in IdPool : j < i => j \in UsedIds

\* the value a merge delegate returns: a new object, or its second argument
MergeResult(d, c, o) ==
    IF d = "parent" THEN o ELSE Obj(FreshId, MergeData(d, c, o))

\* ------------------------------------------------------- the engine's code
\* The methods are functions of the evaluator's state s:
\*   s.mc, s.stack, s.frames  matchedCase, contextStack, the running delegates
\*   s.inv                    the caller's callbacks invoked by the call
\*   s.ret                    "this", "key" (s.retKey), "context" (s.retObj) or
\*                            "throw" (a TypeError reached the caller)
\*                            or "value" (s.retVal, from a result map)
\*   s.a1, s.a2               the arguments handed to unwrap's merge delegate
\*   s.a1, s.aKey, s.calls    the arguments handed to a resolver, and the number
\*                            of resolver calls

\* contextStack[contextStack.length - (index || 1)]; index 0 is an omitted index
getContext(stack, index) == stack[Len(stack) - (IF index = 0 THEN 1 ELSE index) + 1]

\* contextStack[contextStack.length - (index || 1)] = newContext
updateContext(stack, newContext, index) ==
    [stack EXCEPT ![Len(stack) - (IF index = 0 THEN 1 ELSE index) + 1] = newContext]

\* checkIsComparator as a slip would have it: no leaf is taken for a comparator
checkIsComparator_Never(leaf) == FALSE

\* value && typeof value === "object" && typeof value.test === "function"
checkIsComparator(leaf) == leaf.cmp # "none"

\* matcher.number as a slip would have it: the bounds are exclusive
numberTest_Exclusive(options, value) ==
    IF value.t \notin {"number", "NaN", "-0"} THEN FALSE
    ELSE IF ~options.given THEN TRUE
    ELSE IF options.hasMin /\ value.t # "NaN" /\ value.n <= options.min THEN FALSE
    ELSE IF options.hasMax /\ value.t # "NaN" /\ value.n >= options.max THEN FALSE
    ELSE IF options.integer /\ value.t = "NaN" THEN FALSE
    ELSE IF options.finite /\ value.t = "NaN" THEN FALSE
    ELSE TRUE

\* matcher.number(options).test(value); value.t "NaN" and "-0" are numbers too
IsNumber(value) == value.t \in {"number", "NaN", "-0"}
numberTest(options, value) ==
    IF ~IsNumber(value) THEN FALSE
    ELSE IF ~options.given THEN TRUE
    ELSE IF options.hasMin /\ value.t # "NaN" /\ value.n < options.min THEN FALSE
    ELSE IF options.hasMax /\ value.t # "NaN" /\ value.n > options.max THEN FALSE
    ELSE IF options.integer /\ value.t = "NaN" THEN FALSE
    ELSE IF options.finite /\ value.t = "NaN" THEN FALSE
    ELSE TRUE

\* valuePattern.test(value) of a comparator leaf
ComparatorTest(leaf, value) == numberTest(leaf.opt, value)

\* the comparison as a slip would have it: a === b, where NaN is not NaN and
\* +0 is -0
ObjectIs_StrictEquals(a, b) ==
    /\ a.t # "NaN"
    /\ b.t # "NaN"
    /\ \/ a = b
       \/ {a.t, b.t} = {"number", "-0"} /\ a.n = 0 /\ b.n = 0

\* Object.is(a, b): NaN is NaN, +0 is not -0
ObjectIs(a, b) == a = b

\* applyMatchedCase as a slip would have it: contextStack.push(getContext()),
\* the branch works on the parent's own record
applyMatchedCase_SharedLayer(s, caseOrBranch) ==
    IF IsFunction(caseOrBranch)
    THEN [s EXCEPT !.stack = Append(@, getContext(@, 0)),
                   !.frames = Append(@, BranchDelegate),
                   !.inv = @ \cup {"delegate"}]
    ELSE [s EXCEPT !.mc = caseOrBranch]

\* applyMatchedCase as a slip would have it: the delegate is also stored in the
\* case slot
applyMatchedCase_CommitDelegate(s, caseOrBranch) ==
    IF IsFunction(caseOrBranch)
    THEN [s EXCEPT !.stack = Append(@, Obj(FreshId, Spread(getContext(@, 0), undefinedObj))),
                   !.frames = Append(@, BranchDelegate),
                   !.inv = @ \cup {"delegate"},
                   !.mc = caseOrBranch]
    ELSE [s EXCEPT !.mc = caseOrBranch]

\* function applyMatchedCase(caseOrBranch), up to the call of the delegate:
\* a function is entered as a branch on a pushed copy of the top layer,
\* anything else is stored in the case slot
applyMatchedCase(s, caseOrBranch) ==
    IF IsFunction(caseOrBranch)
    THEN [s EXCEPT !.stack = Append(@, Obj(FreshId, Spread(getContext(@, 0), undefinedObj))),
                   !.frames = Append(@, BranchDelegate),
                   !.inv = @ \cup {"delegate"}]
    ELSE [s EXCEPT !.mc = caseOrBranch]

\* the return from a delegate as a slip would have it: no pop
applyMatchedCaseReturn_NoPop(s) ==
    [s EXCEPT !.frames = SubSeq(@, 1, Len(@) - 1)]

\* the return from a delegate as a slip would have it: the parent's layer is
\* removed instead of the branch's
applyMatchedCaseReturn_DropParent(s) ==
    [s EXCEPT !.stack = Append(SubSeq(@, 1, Len(@) - 2), @[Len(@)]),
              !.frames = SubSeq(@, 1, Len(@) - 1)]

\* function applyMatchedCase, after the delegate returned: contextStack.pop()
applyMatchedCaseReturn(s) ==
    [s EXCEPT !.stack = SubSeq(@, 1, Len(@) - 1),
              !.frames = SubSeq(@, 1, Len(@) - 1)]

\* the key test as a slip would have it: some() instead of every()
isMatchPattern_Some(pattern, currentContext) ==
    \E key \in DOMAIN pattern :
        IF checkIsComparator(pattern[key])
        THEN ComparatorTest(pattern[key], Get(currentContext, key))
        ELSE ObjectIs(Get(currentContext, key), pattern[key].v)

\* patternKeys.every(...) of matchCasePattern
isMatchPattern(pattern, currentContext) ==
    \A key \in DOMAIN pattern :
        IF checkIsComparator(pattern[key])
        THEN ComparatorTest(pattern[key], Get(currentContext, key))
        ELSE ObjectIs(Get(currentContext, key), pattern[key].v)

\* matchCasePattern as a slip would have it: a pattern without keys is
\* unmatched
matchCasePattern_EmptyUnmatched(s, input, resultCase) ==
    IF input.isNull \/ DOMAIN input.pattern = {}
    THEN s
    ELSE IF IsNullish(getContext(s.stack, 0))
         THEN [s EXCEPT !.ret = "throw"]
         ELSE IF ~isMatchPattern(input.pattern, getContext(s.stack, 0))
              THEN s
              ELSE applyMatchedCase(s, resultCase)

\* matchCasePattern as a slip would have it: null is taken for a pattern
\* without keys
matchCasePattern_NullAsEmpty(s, input, resultCase) ==
    IF DOMAIN input.pattern # {} /\ IsNullish(getContext(s.stack, 0))
    THEN [s EXCEPT !.ret = "throw"]
    ELSE IF DOMAIN input.pattern # {}
               /\ ~isMatchPattern(input.pattern, getContext(s.stack, 0))
         THEN s
         ELSE applyMatchedCase(s, resultCase)

\* function matchCasePattern(pattern, resultCase)
\* (currentContext[key] is a TypeError when the top layer is undefined or null)
matchCasePattern(s, input, resultCase) ==
    IF input.isNull
    THEN s
    ELSE IF DOMAIN input.pattern # {} /\ IsNullish(getContext(s.stack, 0))
         THEN [s EXCEPT !.ret = "throw"]
         ELSE IF DOMAIN input.pattern # {}
                    /\ ~isMatchPattern(input.pattern, getContext(s.stack, 0))
              THEN s
              ELSE applyMatchedCase(s, resultCase)

\* withContext as a slip would have it: the previous layer's keys win
withContext_PrevWins(s, ext) ==
    IF TruthyObj(ext)
    THEN [s EXCEPT !.stack = updateContext(@, Obj(FreshId, Spread(ext, getContext(@, 0))), 0)]
    ELSE s

\* withContext as a slip would have it: Object.assign(getContext(), ext), the
\* top layer is extended in place
withContext_InPlace(s, ext) ==
    IF TruthyObj(ext)
    THEN [s EXCEPT !.stack =
                updateContext(@, Obj(getContext(@, 0).id, Spread(getContext(@, 0), ext)), 0)]
    ELSE s

\* withContext(ext)
withContext(s, ext) ==
    IF TruthyObj(ext)
    THEN [s EXCEPT !.stack = updateContext(@, Obj(FreshId, Spread(getContext(@, 0), ext)), 0)]
    ELSE s

\* the value a mapper returns
Mapper(f, c) ==
    CASE f = "identity" -> c
      [] f = "rename" -> Obj(FreshId, [k \in {"bar"} |-> Get(c, "foo")])
MapperThrows(f, c) == f = "rename" /\ IsNullish(c)

\* mapContext as a slip would have it: the mapper's result is merged over the
\* top layer
mapContext_Merge(s, mapper) ==
    IF MapperThrows(mapper, getContext(s.stack, 0))
    THEN [s EXCEPT !.inv = @ \cup {"mapper"}, !.ret = "throw"]
    ELSE [s EXCEPT !.stack =
                updateContext(@, Obj(FreshId, Spread(getContext(@, 0),
                                                     Mapper(mapper, getContext(@, 0)))), 0),
                   !.inv = @ \cup {"mapper"}]

\* mapContext(mapper)
mapContext(s, mapper) ==
    IF MapperThrows(mapper, getContext(s.stack, 0))
    THEN [s EXCEPT !.inv = @ \cup {"mapper"}, !.ret = "throw"]
    ELSE [s EXCEPT !.stack = updateContext(@, Mapper(mapper, getContext(@, 0)), 0),
                   !.inv = @ \cup {"mapper"}]

\* forward(delegate)
forward(s, delegate) ==
    IF ~Truthy(s.mc) THEN applyMatchedCase(s, delegate) ELSE s

\* unwrap as a slip would have it: the result is written to the top layer
unwrap_WriteTop(s, delegate) ==
    LET isBranch == Len(s.stack) > 1
        originContextIndex == IF isBranch THEN 2 ELSE 1
        current == getContext(s.stack, 0)
        origin == IF isBranch THEN getContext(s.stack, originContextIndex) ELSE context
        newContext ==
            IF delegate # "none"
            THEN MergeResult(delegate, current, origin)
            ELSE current
    IN  [s EXCEPT !.stack = updateContext(@, newContext, 0),
                  !.inv = IF delegate # "none" THEN @ \cup {"merge"} ELSE @,
                  !.a1 = IF delegate # "none" THEN current ELSE @,
                  !.a2 = IF delegate # "none" THEN origin ELSE @,
                  !.ret = "context",
                  !.retObj = newContext]

\* unwrap as a slip would have it: at the root the merge delegate gets the
\* current root layer instead of the context given to matcher()
unwrap_OriginFromStack(s, delegate) ==
    LET isBranch == Len(s.stack) > 1
        originContextIndex == IF isBranch THEN 2 ELSE 1
        current == getContext(s.stack, 0)
        origin == getContext(s.stack, originContextIndex)
        newContext ==
            IF delegate # "none"
            THEN MergeResult(delegate, current, origin)
            ELSE current
    IN  [s EXCEPT !.stack = updateContext(@, newContext, originContextIndex),
                  !.inv = IF delegate # "none" THEN @ \cup {"merge"} ELSE @,
                  !.a1 = IF delegate # "none" THEN current ELSE @,
                  !.a2 = IF delegate # "none" THEN origin ELSE @,
                  !.ret = "context",
                  !.retObj = newContext]

\* unwrap as a slip would have it: in a branch the merge delegate gets the
\* parent's context of the time the branch was entered
unwrap_ParentAtEntry(s, delegate) ==
    LET isBranch == Len(s.stack) > 1
        originContextIndex == IF isBranch THEN 2 ELSE 1
        current == getContext(s.stack, 0)
        origin == IF isBranch THEN ghost.hist[Len(ghost.hist)].entry ELSE context
        newContext ==
            IF delegate # "none"
            THEN MergeResult(delegate, current, origin)
            ELSE current
    IN  [s EXCEPT !.stack = updateContext(@, newContext, originContextIndex),
                  !.inv = IF delegate # "none" THEN @ \cup {"merge"} ELSE @,
                  !.a1 = IF delegate # "none" THEN current ELSE @,
                  !.a2 = IF delegate # "none" THEN origin ELSE @,
                  !.ret = "context",
                  !.retObj = newContext]

\* unwrap as a slip would have it: in a branch it also leaves the branch, the
\* branch's layer is popped at once
unwrap_LeavesBranch(s, delegate) ==
    LET isBranch == Len(s.stack) > 1
        originContextIndex == IF isBranch THEN 2 ELSE 1
        current == getContext(s.stack, 0)
        origin == IF isBranch THEN getContext(s.stack, originContextIndex) ELSE context
        newContext ==
            IF delegate # "none"
            THEN MergeResult(delegate, current, origin)
            ELSE current
        written == updateContext(s.stack, newContext, originContextIndex)
    IN  [s EXCEPT !.stack = IF isBranch THEN SubSeq(written, 1, Len(written) - 1) ELSE written,
                  !.frames = IF isBranch THEN SubSeq(@, 1, Len(@) - 1) ELSE @,
                  !.inv = IF delegate # "none" THEN @ \cup {"merge"} ELSE @,
                  !.a1 = IF delegate # "none" THEN current ELSE @,
                  !.a2 = IF delegate # "none" THEN origin ELSE @,
                  !.ret = "context",
                  !.retObj = newContext]

\* unwrap as a slip would have it: in a branch the result is written to the
\* root layer, however deep the branch is
unwrap_ToRoot(s, delegate) ==
    LET isBranch == Len(s.stack) > 1
        originContextIndex == IF isBranch THEN 2 ELSE 1
        current == getContext(s.stack, 0)
        origin == IF isBranch THEN getContext(s.stack, originContextIndex) ELSE context
        newContext ==
            IF delegate # "none"
            THEN MergeResult(delegate, current, origin)
            ELSE current
    IN  [s EXCEPT !.stack = updateContext(@, newContext, Len(s.stack)),
                  !.inv = IF delegate # "none" THEN @ \cup {"merge"} ELSE @,
                  !.a1 = IF delegate # "none" THEN current ELSE @,
                  !.a2 = IF delegate # "none" THEN origin ELSE @,
                  !.ret = "context",
                  !.retObj = newContext]

\* unwrap as a slip would have it: at the root the result is returned and
\* nothing is written
unwrap_RootReadOnly(s, delegate) ==
    LET isBranch == Len(s.stack) > 1
        originContextIndex == IF isBranch THEN 2 ELSE 1
        current == getContext(s.stack, 0)
        origin == IF isBranch THEN getContext(s.stack, originContextIndex) ELSE context
        newContext ==
            IF delegate # "none"
            THEN MergeResult(delegate, current, origin)
            ELSE current
    IN  [s EXCEPT !.stack = IF isBranch THEN updateContext(@, newContext, originContextIndex) ELSE @,
                  !.inv = IF delegate # "none" THEN @ \cup {"merge"} ELSE @,
                  !.a1 = IF delegate # "none" THEN current ELSE @,
                  !.a2 = IF delegate # "none" THEN origin ELSE @,
                  !.ret = "context",
                  !.retObj = newContext]

\* unwrap(delegate)
unwrap(s, delegate) ==
    LET isBranch == Len(s.stack) > 1
        originContextIndex == IF isBranch THEN 2 ELSE 1
        current == getContext(s.stack, 0)
        origin == IF isBranch THEN getContext(s.stack, originContextIndex) ELSE context
        newContext ==
            IF delegate # "none"
            THEN MergeResult(delegate, current, origin)
            ELSE current
    IN  [s EXCEPT !.stack = updateContext(@, newContext, originContextIndex),
                  !.inv = IF delegate # "none" THEN @ \cup {"merge"} ELSE @,
                  !.a1 = IF delegate # "none" THEN current ELSE @,
                  !.a2 = IF delegate # "none" THEN origin ELSE @,
                  !.ret = "context",
                  !.retObj = newContext]

\* matchCase as a slip would have it: no skip once a case is resolved
matchCase_NoSkip(s, input, resultCase) ==
    IF input.type = "boolean" /\ input.b
    THEN applyMatchedCase(s, resultCase)
    ELSE IF input.type = "function"
         THEN LET t == [s EXCEPT !.inv = @ \cup {"predicate"}]
              IN  IF PredicateThrows(input.f, getContext(s.stack, 0))
                  THEN [t EXCEPT !.ret = "throw"]
                  ELSE IF Predicate(input.f, getContext(s.stack, 0))
                       THEN applyMatchedCase(t, resultCase)
                       ELSE t
         ELSE IF input.type = "object"
              THEN matchCasePattern(s, input, resultCase)
              ELSE s

\* matchCase as a slip would have it: a guard that is no boolean, function or
\* object is rejected with a TypeError
matchCase_StrictGuard(s, input, resultCase) ==
    IF ~Truthy(s.mc)
    THEN IF input.type = "boolean" /\ input.b
         THEN applyMatchedCase(s, resultCase)
         ELSE IF input.type = "function"
              THEN LET t == [s EXCEPT !.inv = @ \cup {"predicate"}]
                   IN  IF PredicateThrows(input.f, getContext(s.stack, 0))
                       THEN [t EXCEPT !.ret = "throw"]
                       ELSE IF Predicate(input.f, getContext(s.stack, 0))
                            THEN applyMatchedCase(t, resultCase)
                            ELSE t
              ELSE IF input.type = "object"
                   THEN matchCasePattern(s, input, resultCase)
                   ELSE IF input.type = "boolean" THEN s ELSE [s EXCEPT !.ret = "throw"]
    ELSE s

\* matchCase as a slip would have it: the guard is tested for truthiness, so a
\* non-empty string or a non-zero number matches like true
matchCase_TruthyGuard(s, input, resultCase) ==
    IF ~Truthy(s.mc)
    THEN IF (input.type = "boolean" /\ input.b) \/ input.type \in {"string", "number"}
         THEN applyMatchedCase(s, resultCase)
         ELSE IF input.type = "function"
              THEN LET t == [s EXCEPT !.inv = @ \cup {"predicate"}]
                   IN  IF PredicateThrows(input.f, getContext(s.stack, 0))
                       THEN [t EXCEPT !.ret = "throw"]
                       ELSE IF Predicate(input.f, getContext(s.stack, 0))
                            THEN applyMatchedCase(t, resultCase)
                            ELSE t
              ELSE IF input.type = "object"
                   THEN matchCasePattern(s, input, resultCase)
                   ELSE s
    ELSE s

\* matchCase(input, resultCase)
matchCase(s, input, resultCase) ==
    IF ~Truthy(s.mc)
    THEN IF input.type = "boolean" /\ input.b
         THEN applyMatchedCase(s, resultCase)
         ELSE IF input.type = "function"
              THEN LET t == [s EXCEPT !.inv = @ \cup {"predicate"}]
                   IN  IF PredicateThrows(input.f, getContext(s.stack, 0))
                       THEN [t EXCEPT !.ret = "throw"]
                       ELSE IF Predicate(input.f, getContext(s.stack, 0))
                            THEN applyMatchedCase(t, resultCase)
                            ELSE t
              ELSE IF input.type = "object"
                   THEN matchCasePattern(s, input, resultCase)
                   ELSE s
    ELSE s

\* selectCase as a slip would have it: without a case map every result but
\* undefined is stored
selectCase_CommitFalsy(s, selector, caseMap) ==
    IF Truthy(s.mc)
    THEN s
    ELSE LET t == [s EXCEPT !.inv = @ \cup {"selector"}]
             caseKey == Selector(selector, getContext(s.stack, 0))
         IN  IF SelectorThrows(selector, getContext(s.stack, 0))
             THEN [t EXCEPT !.ret = "throw"]
             ELSE IF caseMap # NoMap
                  THEN IF Truthy(caseKey) /\ Truthy(Lookup(caseMap, caseKey))
                       THEN applyMatchedCase(t, Lookup(caseMap, caseKey))
                       ELSE t
                  ELSE IF caseKey # U THEN [t EXCEPT !.mc = caseKey] ELSE t

\* selectCase as a slip would have it: with a case map the selector's result
\* is stored instead of the mapped key
selectCase_CommitSelector(s, selector, caseMap) ==
    IF Truthy(s.mc)
    THEN s
    ELSE LET t == [s EXCEPT !.inv = @ \cup {"selector"}]
             caseKey == Selector(selector, getContext(s.stack, 0))
         IN  IF SelectorThrows(selector, getContext(s.stack, 0))
             THEN [t EXCEPT !.ret = "throw"]
             ELSE IF Truthy(caseKey)
                  THEN IF caseMap # NoMap
                       THEN IF Truthy(Lookup(caseMap, caseKey))
                            THEN IF IsFunction(Lookup(caseMap, caseKey))
                                 THEN applyMatchedCase(t, Lookup(caseMap, caseKey))
                                 ELSE [t EXCEPT !.mc = caseKey]
                            ELSE t
                       ELSE [t EXCEPT !.mc = caseKey]
                  ELSE t

\* selectCase(selector, caseMap)
selectCase(s, selector, caseMap) ==
    IF Truthy(s.mc)
    THEN s
    ELSE LET t == [s EXCEPT !.inv = @ \cup {"selector"}]
             caseKey == Selector(selector, getContext(s.stack, 0))
         IN  IF SelectorThrows(selector, getContext(s.stack, 0))
             THEN [t EXCEPT !.ret = "throw"]
             ELSE IF Truthy(caseKey)
                  THEN IF caseMap # NoMap
                       THEN IF Truthy(Lookup(caseMap, caseKey))
                            THEN applyMatchedCase(t, Lookup(caseMap, caseKey))
                            ELSE t
                       ELSE [t EXCEPT !.mc = caseKey]
                  ELSE t

\* pick as a slip would have it: the picker gets the context given to
\* matcher(), not the current one
pick_InitialContext(s, picker) ==
    [s EXCEPT !.inv = @ \cup {"picker"}, !.a1 = context, !.aKey = s.mc]

\* pick(picker): picker(current context, matchedCase), then return this.
\* The method is exercised by the tests ("Pick state") and is in none of the
\* engine sources; it is modelled from what the tests expect.
pick(s, picker) ==
    [s EXCEPT !.inv = @ \cup {"picker"}, !.a1 = getContext(s.stack, 0), !.aKey = s.mc]

\* otherwise as a slip would have it: matchedCase ??= resultCase, the slot is
\* written only while it is undefined or null
otherwise_IfNullish(s, resultCase) ==
    [s EXCEPT !.mc = IF @ \in {U, Null} THEN resultCase ELSE @]

\* otherwise(resultCase): matchedCase ||= resultCase
otherwise(s, resultCase) ==
    [s EXCEPT !.mc = IF Truthy(@) THEN @ ELSE resultCase]

\* resolve as a slip would have it: the committed key is consumed, the case
\* slot is cleared once its result is computed
resolve_Consumes(s, resultMap, fallback) ==
    IF ~resultMap.given
    THEN [s EXCEPT !.ret = "key", !.retKey = s.mc, !.mc = U]
    ELSE LET entry == Lookup(resultMap.m, ToPropertyKey(s.mc))
             resultOrDelegate == IF Truthy(entry) THEN entry ELSE fallback
             c == getContext(s.stack, 0)
         IN  IF IsFunction(resultOrDelegate)
             THEN LET t == [s EXCEPT !.inv = @ \cup {IF Truthy(entry) THEN "resolver" ELSE "fallback"},
                                     !.calls = @ + 1,
                                     !.a1 = c,
                                     !.aKey = s.mc]
                  IN  IF ResolverThrows(resultOrDelegate, c)
                      THEN [t EXCEPT !.ret = "throw"]
                      ELSE [t EXCEPT !.ret = "value",
                                     !.retVal = Resolver(resultOrDelegate, c, s.mc),
                                     !.mc = U]
             ELSE [s EXCEPT !.ret = "value", !.retVal = resultOrDelegate, !.mc = U]

\* resolve as a slip would have it: a resolver gets the context given to
\* matcher(), not the current one
resolve_InitialContext(s, resultMap, fallback) ==
    IF ~resultMap.given
    THEN [s EXCEPT !.ret = "key", !.retKey = s.mc]
    ELSE LET entry == Lookup(resultMap.m, ToPropertyKey(s.mc))
             resultOrDelegate == IF Truthy(entry) THEN entry ELSE fallback
             c == context
         IN  IF IsFunction(resultOrDelegate)
             THEN LET t == [s EXCEPT !.inv = @ \cup {IF Truthy(entry) THEN "resolver" ELSE "fallback"},
                                     !.calls = @ + 1,
                                     !.a1 = c,
                                     !.aKey = s.mc]
                  IN  IF ResolverThrows(resultOrDelegate, c)
                      THEN [t EXCEPT !.ret = "throw"]
                      ELSE [t EXCEPT !.ret = "value",
                                     !.retVal = Resolver(resultOrDelegate, c, s.mc)]
             ELSE [s EXCEPT !.ret = "value", !.retVal = resultOrDelegate]

\* resolve as a slip would have it: a resolver is returned, not called
resolve_ReturnsResolver(s, resultMap, fallback) ==
    IF ~resultMap.given
    THEN [s EXCEPT !.ret = "key", !.retKey = s.mc]
    ELSE LET entry == Lookup(resultMap.m, ToPropertyKey(s.mc))
         IN  [s EXCEPT !.ret = "value",
                       !.retVal = IF Truthy(entry) THEN entry ELSE fallback]

\* resolve as a slip would have it: the fallback is used only for a key the
\* result map does not have
resolve_FallbackOnlyIfAbsent(s, resultMap, fallback) ==
    IF ~resultMap.given
    THEN [s EXCEPT !.ret = "key", !.retKey = s.mc]
    ELSE LET entry == Lookup(resultMap.m, ToPropertyKey(s.mc))
             resultOrDelegate == IF ToPropertyKey(s.mc) \in DOMAIN resultMap.m THEN entry ELSE fallback
             c == getContext(s.stack, 0)
         IN  IF IsFunction(resultOrDelegate)
             THEN LET t == [s EXCEPT !.inv = @ \cup {IF ToPropertyKey(s.mc) \in DOMAIN resultMap.m
                                                     THEN "resolver" ELSE "fallback"},
                                     !.calls = @ + 1,
                                     !.a1 = c,
                                     !.aKey = s.mc]
                  IN  IF ResolverThrows(resultOrDelegate, c)
                      THEN [t EXCEPT !.ret = "throw"]
                      ELSE [t EXCEPT !.ret = "value",
                                     !.retVal = Resolver(resultOrDelegate, c, s.mc)]
             ELSE [s EXCEPT !.ret = "value", !.retVal = resultOrDelegate]

\* resolve(resultMap, fallback); resultMap[matchedCase] reads the property
\* named "undefined" when nothing is committed
resolve(s, resultMap, fallback) ==
    IF ~resultMap.given
    THEN [s EXCEPT !.ret = "key", !.retKey = s.mc]
    ELSE LET entry == Lookup(resultMap.m, ToPropertyKey(s.mc))
             resultOrDelegate == IF Truthy(entry) THEN entry ELSE fallback
             c == getContext(s.stack, 0)
         IN  IF IsFunction(resultOrDelegate)
             THEN LET t == [s EXCEPT !.inv = @ \cup {IF Truthy(entry) THEN "resolver" ELSE "fallback"},
                                     !.calls = @ + 1,
                                     !.a1 = c,
                                     !.aKey = s.mc]
                  IN  IF ResolverThrows(resultOrDelegate, c)
                      THEN [t EXCEPT !.ret = "throw"]
                      ELSE [t EXCEPT !.ret = "value",
                                     !.retVal = Resolver(resultOrDelegate, c, s.mc)]
             ELSE [s EXCEPT !.ret = "value", !.retVal = resultOrDelegate]

\* ---------------------------------------------- what the properties observe
\* A guard is satisfied, in the words of the documentation: a boolean when it
\* is true, a predicate when it holds of the context, null never, a record
\* when every declared key has the context's value.
\* (a literal leaf holds of the identical value, a comparator leaf of the values
\* it accepts)
LeafHolds(leaf, v) ==
    IF leaf.cmp = "none" THEN v = leaf.v ELSE numberTest(leaf.opt, v)
Satisfied(input, c) ==
    CASE input.type = "boolean" -> input.b
      [] input.type = "function" -> Predicate(input.f, c)
      [] input.type = "object" ->
            /\ ~input.isNull
            /\ \A key \in DOMAIN input.pattern :
                    key \in DOMAIN c.data /\ LeafHolds(input.pattern[key], c.data[key])
      [] OTHER -> FALSE

\* the target a selectCase call selects: U when it selects nothing
Selected(selector, caseMap, c) ==
    LET r == Selector(selector, c)
    IN  IF ~Truthy(r) THEN U
        ELSE IF caseMap = NoMap THEN r
        ELSE IF Truthy(Lookup(caseMap, r)) THEN Lookup(caseMap, r) ELSE U

\* one running branch delegate: the parent's context and the case slot when it
\* was entered, the method that entered it, the first key committed, the
\* last unwrap made inside it, and whether a branch nested in it called unwrap
NoFrame ==
    [via |-> "", entry |-> undefinedObj, mcEntry |-> U, commit |-> <<>>,
     unwrapped |-> FALSE, last |-> undefinedObj, inner |-> FALSE]

NoCall ==
    [op |-> "matcher", arg |-> "", target |-> U, kind |-> "", sat |-> FALSE,
     input |-> UndefinedGuard, map |-> NoMap, obj |-> undefinedObj,
     resultMap |-> NoResultMap, fallback |-> U,
     inv |-> {}, calls |-> 0, ret |-> "this", retKey |-> U, retVal |-> U,
     retObj |-> undefinedObj, a1 |-> undefinedObj, a2 |-> undefinedObj, aKey |-> U,
     pre |-> [mc |-> U, stack |-> <<>>, after |-> "", pristine |-> TRUE],
     frame |-> NoFrame]

\* the state a method starts from
S0 ==
    [mc |-> matchedCase, stack |-> contextStack, frames |-> frames, inv |-> {},
     calls |-> 0, ret |-> "this", retKey |-> U, retVal |-> U, retObj |-> undefinedObj,
     a1 |-> undefinedObj, a2 |-> undefinedObj, aKey |-> U]

\* the arguments of a call: a name, the match target, the guard, the case map,
\* the extension object, and whether the guard is satisfied
Info(arg, target, kind, sat) ==
    [arg |-> arg, target |-> target, kind |-> kind, sat |-> sat,
     input |-> UndefinedGuard, map |-> NoMap, obj |-> undefinedObj,
     resultMap |-> NoResultMap, fallback |-> U]

\* the chain observed so far, for first-match-wins: "guards" while only
\* matchCase/selectCase calls with plain keys (and context operations) were
\* made at the root, "otherwise" after one otherwise closed them, "off" else
ChainNext(op, info, r) ==
    LET c == ghost.chain
        plain == ~IsFunction(info.target)
    IN  IF c.st = "off" \/ frames # <<>> \/ r.frames # <<>> THEN [c EXCEPT !.st = "off"]
        ELSE IF op \in {"withContext", "mapContext", "resolve"} THEN c
        ELSE IF op \in {"matchCase", "selectCase"} /\ c.st = "guards" /\ plain
             THEN IF info.sat /\ c.hit = <<>> THEN [c EXCEPT !.hit = <<info.target>>] ELSE c
        ELSE IF op = "otherwise" /\ c.st = "guards"
             THEN [c EXCEPT !.st = "otherwise", !.ow = info.target]
        ELSE [c EXCEPT !.st = "off"]

HistNext(op, r) ==
    LET h == ghost.hist
        wrote == r.mc # matchedCase
        h1 == [i \in 1 .. Len(h) |->
                  IF wrote /\ h[i].commit = <<>> THEN [h[i] EXCEPT !.commit = <<r.mc>>] ELSE h[i]]
        h2 == IF op = "unwrap" /\ Len(h1) > 0
              THEN [i \in 1 .. Len(h1) |->
                        IF i = Len(h1)
                        THEN [h1[i] EXCEPT !.unwrapped = TRUE, !.last = r.retObj]
                        ELSE [h1[i] EXCEPT !.inner = TRUE]]
              ELSE h1
    IN  IF op = "return" THEN SubSeq(h2, 1, Len(h2) - 1)
        ELSE IF Len(r.frames) > Len(frames)
             THEN Append(h2, [NoFrame EXCEPT !.via = op,
                                             !.entry = getContext(contextStack, 0),
                                             !.mcEntry = matchedCase])
             ELSE h2

\* the first key a returned branch committed, and the depth it returned to
BranchKeyNext(op) ==
    IF op = "return" /\ ~ghost.branchKey.set /\ ghost.hist[Len(ghost.hist)].commit # <<>>
    THEN [set |-> TRUE, key |-> ghost.hist[Len(ghost.hist)].commit[1], depth |-> Len(frames) - 1]
    ELSE ghost.branchKey

\* what the call that just ended followed
After ==
    IF call.op = "return"
    THEN IF call.frame.via = "matchCase" /\ call.frame.commit = <<>> /\ ~Truthy(matchedCase)
         THEN "fallthrough"
         ELSE "branch"
    ELSE IF /\ call.op = "selectCase"
            /\ call.map = NoMap
            /\ "selector" \in call.inv
            /\ call.ret # "throw"
            /\ ~Truthy(Selector(call.arg, getContext(call.pre.stack, 0)))
         THEN "selectMiss"
         ELSE IF /\ call.op = "matchCase"
                 /\ call.input.type = "object"
                 /\ ~Truthy(call.pre.mc)
                 /\ call.ret # "throw"
                 /\ \E key \in DOMAIN call.input.pattern :
                        /\ checkIsComparator(call.input.pattern[key])
                        /\ ~ComparatorTest(call.input.pattern[key],
                                           Get(getContext(call.pre.stack, 0), key))
              THEN "comparatorMiss"
              ELSE IF call.op = "pick" THEN "pick"
              ELSE IF call.op = "otherwise" /\ call.pre.after = "pick" THEN "pickOtherwise"
              ELSE IF /\ call.op \in {"withContext", "mapContext"}
                      /\ Truthy(call.pre.mc)
                      /\ contextStack # call.pre.stack
                   THEN "lateContext"
              ELSE ""

\* What a call that takes one evaluator to r does to another evaluator, as a
\* slip would have it: matchedCase is declared outside matcher(), one slot for
\* all evaluators
peerAfter_SharedSlot(p, r) ==
    [mc |-> r.mc,
     stack |-> [i \in 1 .. Len(p.stack) |->
                    IF \E j \in 1 .. Len(r.stack) : r.stack[j].id = p.stack[i].id
                    THEN CHOOSE o \in {r.stack[j] : j \in 1 .. Len(r.stack)} : o.id = p.stack[i].id
                    ELSE p.stack[i]]]

\* What a call that takes one evaluator to r does to another evaluator:
\* matchedCase and contextStack are variables of one matcher() call, so the
\* other keeps its slot and its layers; a layer that is the same object as a
\* layer of r has that object's contents.
peerAfter(p, r) ==
    [mc |-> p.mc,
     stack |-> [i \in 1 .. Len(p.stack) |->
                    IF \E j \in 1 .. Len(r.stack) : r.stack[j].id = p.stack[i].id
                    THEN CHOOSE o \in {r.stack[j] : j \in 1 .. Len(r.stack)} : o.id = p.stack[i].id
                    ELSE p.stack[i]]]

\* a method call (or the return of a delegate) takes the evaluator to r
Do(op, info, r) ==
    /\ Len(r.frames) <= MaxDepth
    /\ matchedCase' = r.mc
    /\ contextStack' = r.stack
    /\ frames' = r.frames
    /\ UNCHANGED context
    /\ call' = [op |-> op, arg |-> info.arg, target |-> info.target, kind |-> info.kind,
                sat |-> info.sat, input |-> info.input, map |-> info.map,
                obj |-> info.obj, resultMap |-> info.resultMap, fallback |-> info.fallback,
                inv |-> r.inv, calls |-> r.calls, ret |-> r.ret, retKey |-> r.retKey,
                retVal |-> r.retVal, retObj |-> r.retObj, a1 |-> r.a1, a2 |-> r.a2,
                aKey |-> r.aKey,
                pre |-> [mc |-> matchedCase, stack |-> contextStack, after |-> After,
                         pristine |-> ghost.pristine],
                frame |-> IF op = "return" \/ (op = "unwrap" /\ ghost.hist # <<>>)
                          THEN ghost.hist[Len(ghost.hist)]
                          ELSE NoFrame]
    /\ ghost' = [hist |-> HistNext(op, r),
                 chain |-> ChainNext(op, info, r),
                 branchKey |-> BranchKeyNext(op),
                 pristine |-> ghost.pristine /\ op \notin {"withContext", "mapContext", "unwrap"},
                 picked |-> IF op = "pick"
                            THEN Append(ghost.picked, [c |-> r.a1, k |-> r.aKey, at |-> nOps])
                            ELSE ghost.picked]
    /\ nOps' = IF op \in {"return", "resolve"} THEN nOps ELSE nOps + 1
    /\ peer' = peerAfter(peer, r)
    /\ UNCHANGED probe

\* the history of a new evaluator
Ghost0 ==
    [hist |-> <<>>,
     chain |-> [st |-> "guards", hit |-> <<>>, ow |-> U],
     branchKey |-> [set |-> FALSE, key |-> U, depth |-> 0],
     pristine |-> TRUE,
     picked |-> <<>>]

\* ----------------------------------------------------------------- actions
\* matcher(context): contextStack = [context || {}]
Init ==
    /\ context \in InitialContexts
    /\ matchedCase = U
    /\ contextStack = <<IF TruthyObj(context) THEN context ELSE Obj(10, EmptyData)>>
    /\ frames = <<>>
    /\ call = NoCall
    /\ ghost = Ghost0
    /\ nOps = 0
    /\ peer = [mc |-> U,
               stack |-> <<IF TruthyObj(context) THEN context ELSE Obj(11, EmptyData)>>]
    /\ probe = NoProbe

WithContext ==
    /\ nOps < MaxOps
    /\ \E ext \in Extensions :
        Do("withContext", [Info("", U, "", FALSE) EXCEPT !.obj = ext], withContext(S0, ext))

MapContext ==
    /\ nOps < MaxOps
    /\ \E mapper \in Mappers :
        Do("mapContext", Info(mapper, U, "", FALSE), mapContext(S0, mapper))

Forward ==
    /\ nOps < MaxOps
    /\ Do("forward", Info("", BranchDelegate, "", FALSE), forward(S0, BranchDelegate))

Unwrap ==
    /\ nOps < MaxOps
    /\ \E delegate \in MergeDelegates :
        Do("unwrap", Info(delegate, U, "", FALSE), unwrap(S0, delegate))

MatchCase ==
    /\ nOps < MaxOps
    /\ \E input \in Guards, resultCase \in Targets :
        Do("matchCase",
           [Info("", resultCase, input.type, Satisfied(input, getContext(contextStack, 0)))
                EXCEPT !.input = input],
           matchCase(S0, input, resultCase))

SelectCase ==
    /\ nOps < MaxOps
    /\ \E selector \in Selectors, caseMap \in CaseMaps :
        LET target == Selected(selector, caseMap, getContext(contextStack, 0))
        IN  Do("selectCase", [Info(selector, target, "", target # U) EXCEPT !.map = caseMap],
               selectCase(S0, selector, caseMap))

Otherwise ==
    /\ nOps < MaxOps
    /\ \E resultCase \in CaseKeys :
        Do("otherwise", Info("", resultCase, "", FALSE), otherwise(S0, resultCase))

Resolve ==
    /\ Do("resolve", Info("", U, "", FALSE), resolve(S0, NoResultMap, U))

\* the running branch delegate returns to applyMatchedCase
Return ==
    /\ frames # <<>>
    /\ Do("return", Info("", U, "", FALSE), applyMatchedCaseReturn(S0))

Next ==
    \/ WithContext
    \/ MapContext
    \/ Forward
    \/ Unwrap
    \/ MatchCase
    \/ SelectCase
    \/ Otherwise
    \/ Resolve
    \/ Return

Spec == Init /\ [][Next]_vars

\* The two-evaluator specification: the caller turns from one evaluator to the
\* other between two calls (outside any delegate), so the calls of a behaviour
\* are interleaved on both.
Switch ==
    /\ frames = <<>>
    /\ nOps > 0
    /\ call.op # "switch"
    /\ matchedCase' = peer.mc
    /\ contextStack' = peer.stack
    /\ peer' = [mc |-> matchedCase, stack |-> contextStack]
    /\ call' = [NoCall EXCEPT !.op = "switch"]
    /\ ghost' = Ghost0
    /\ UNCHANGED <<context, frames, nOps, probe>>

NextPair ==
    \/ WithContext
    \/ MapContext
    \/ Unwrap
    \/ Otherwise
    \/ Forward
    \/ Return
    \/ Switch

SpecPair == Init /\ [][NextPair]_vars

\* The number-comparator specification: matcher.number(options).test(value)
\* for every options object and value.
InitNumber ==
    /\ context = undefinedObj
    /\ matchedCase = U
    /\ contextStack = <<Obj(10, EmptyData)>>
    /\ frames = <<>>
    /\ call = NoCall
    /\ ghost = Ghost0
    /\ nOps = 0
    /\ peer = [mc |-> U, stack |-> <<Obj(11, EmptyData)>>]
    /\ probe \in {[NoProbe EXCEPT !.options = o, !.value = v] :
                    o \in NumberOptions, v \in NumberValues}

NumberTest ==
    /\ ~probe.done
    /\ probe' = [probe EXCEPT !.done = TRUE,
                              !.result = numberTest(probe.options, probe.value)]
    /\ UNCHANGED <<matchedCase, contextStack, context, frames, call, ghost, nOps, peer>>

NextNumber == NumberTest

SpecNumber == InitNumber /\ [][NextNumber]_vars

\* The pick specification: pick calls between context extensions, otherwise
\* calls and branches.
Pick ==
    /\ nOps < MaxOps
    /\ Do("pick", Info("picker", U, "", FALSE), pick(S0, "picker"))

NextPick ==
    \/ Pick
    \/ WithContext
    \/ Otherwise
    \/ Forward
    \/ Return

SpecPick == Init /\ [][NextPick]_vars

\* The resolution specification: context extensions and otherwise calls, and
\* resolve with every result map and fallback.
ResolveWith ==
    /\ frames = <<>>
    /\ \E resultMap \in ResultMaps, fallback \in Fallbacks :
        Do("resolve",
           [Info("", U, "", FALSE) EXCEPT !.resultMap = resultMap, !.fallback = fallback],
           resolve(S0, resultMap, fallback))

NextResolve ==
    \/ WithContext
    \/ Otherwise
    \/ ResolveWith

SpecResolve == Init /\ [][NextResolve]_vars

\* The root-unwrap specification: context extensions, unwrap, guards on the
\* key foo and resolve with every result map and fallback, all at the root.
FooGuards == {FnGuard("fooIs1"), PatternGuard([k \in {"foo"} |-> Leaf(Num(1))])}

MatchFoo ==
    /\ nOps < MaxOps
    /\ \E input \in FooGuards, resultCase \in {"A"} :
        Do("matchCase",
           [Info("", resultCase, input.type, Satisfied(input, getContext(contextStack, 0)))
                EXCEPT !.input = input],
           matchCase(S0, input, resultCase))

NextUnwrap ==
    \/ WithContext
    \/ Unwrap
    \/ MatchFoo
    \/ ResolveWith

SpecUnwrap == Init /\ [][NextUnwrap]_vars

\* The late-context specification: context operations and otherwise calls in
\* any order, and resolve with every result map and fallback.
NextLate ==
    \/ WithContext
    \/ MapContext
    \/ Otherwise
    \/ ResolveWith

SpecLate == Init /\ [][NextLate]_vars

\* The guard-dispatch specification: one matchCase call on a new evaluator, the
\* context, the guard and the target drawn from all their shapes, and the
\* otherwise calls that follow it.
InitGuards ==
    /\ context \in GuardContexts
    /\ matchedCase = U
    /\ contextStack = <<IF TruthyObj(context) THEN context ELSE Obj(10, EmptyData)>>
    /\ frames = <<>>
    /\ call = NoCall
    /\ ghost = Ghost0
    /\ nOps = 0
    /\ peer = [mc |-> U,
               stack |-> <<IF TruthyObj(context) THEN context ELSE Obj(11, EmptyData)>>]
    /\ probe = NoProbe

MatchGuard ==
    /\ nOps = 0
    /\ \E input \in GuardInputs, resultCase \in Targets :
        Do("matchCase",
           [Info("", resultCase, input.type, Satisfied(input, getContext(contextStack, 0)))
                EXCEPT !.input = input],
           matchCase(S0, input, resultCase))

NextGuards ==
    \/ MatchGuard
    \/ Otherwise
    \/ Return

SpecGuards == InitGuards /\ [][NextGuards]_vars

Depth == Len(contextStack)

TypeOK ==
    /\ matchedCase \in CaseKeys \cup {U}
    /\ Depth \in 0 .. MaxDepth + 1
    /\ nOps \in 0 .. MaxOps

\* -------------------------------------------------------------- properties
CaseOps == {"matchCase", "selectCase", "otherwise"}

\* C1: write-once case slot.  Once a case key, whatever its value, has been
\* committed to the case slot, no later matchCase, selectCase, otherwise or
\* forward call changes or clears the slot.
C1_WriteOnce ==
    (call.op \in CaseOps \cup {"forward"} /\ call.pre.mc # U) => matchedCase = call.pre.mc

\* C2: first-match-wins.  After a chain of matchCase/selectCase calls with
\* plain case keys and an optional closing otherwise, resolve() returns the key
\* of the first call whose guard was satisfied, else the otherwise key, else
\* undefined.
C2_FirstMatchWins ==
    (call.op = "resolve" /\ ghost.chain.st # "off") =>
        call.retKey =
            (IF ghost.chain.hit # <<>> THEN ghost.chain.hit[1]
             ELSE IF ghost.chain.st = "otherwise" THEN ghost.chain.ow
             ELSE U)

\* C3: otherwise(caseKey) commits caseKey exactly when nothing was committed
\* before the call, and leaves the case slot unchanged after a commitment.
C3_OtherwiseSetIfAbsent ==
    call.op = "otherwise" =>
        matchedCase = (IF call.pre.mc = U THEN call.target ELSE call.pre.mc)

C5_SharedSlot ==
    /\ (call.op = "return" /\ call.frame.commit # <<>>) =>
            matchedCase = call.frame.commit[1]
    /\ (/\ call.op \in CaseOps
        /\ ghost.branchKey.set
        /\ Len(call.pre.stack) - 1 <= ghost.branchKey.depth) =>
            /\ matchedCase = ghost.branchKey.key
            /\ contextStack = call.pre.stack

\* C6: branch isolation.  When a branch delegate that never called unwrap
\* returns, the parent's context layer is the very object it was when the
\* branch was entered.
C6_BranchIsolation ==
    (call.op = "return" /\ ~call.frame.unwrapped) =>
        getContext(contextStack, 0) = call.frame.entry

C6_Witness ==
    /\ call.op = "return"
    /\ ~call.frame.unwrapped
    /\ getContext(call.pre.stack, 0).data # call.frame.entry.data
    /\ getContext(contextStack, 0) = call.frame.entry

\* C7: unwrap inside a branch takes the branch's top context, hands (branch
\* context, parent context) to the merge delegate when one is given and uses
\* its result; that value is returned and written as the parent layer, so it
\* is the parent's current context once the branch has returned.
C7_UnwrapInBranch ==
    /\ (call.op = "unwrap" /\ Len(call.pre.stack) > 1) =>
            LET n == Len(call.pre.stack)
                cur == call.pre.stack[n]
                parent == call.pre.stack[n - 1]
            IN  /\ call.ret = "context"
                /\ IF call.arg = "none"
                   THEN call.retObj = cur /\ call.inv = {}
                   ELSE /\ call.inv = {"merge"}
                        /\ call.a1 = cur
                        /\ call.a2 = parent
                        /\ call.retObj.data = MergeData(call.arg, cur, parent)
                /\ Len(contextStack) = n
                /\ contextStack[n - 1] = call.retObj
    /\ (call.op = "return" /\ call.frame.unwrapped) =>
            getContext(contextStack, 0) = call.frame.last

C7_Witness ==
    /\ call.op = "return"
    /\ call.frame.unwrapped
    /\ call.frame.last.data # call.frame.entry.data
    /\ getContext(contextStack, 0) = call.frame.last

\* C8: unwrap at the root.  Without a merge delegate it returns the current
\* root context (the object given to matcher() when no context operation was
\* made); with one it returns delegate(current context, the context given to
\* matcher()), whatever withContext/mapContext did since.
C8_UnwrapAtRoot ==
    (call.op = "unwrap" /\ Len(call.pre.stack) = 1) =>
        /\ call.ret = "context"
        /\ IF call.arg = "none"
           THEN /\ call.retObj = call.pre.stack[1]
                /\ call.inv = {}
                /\ (call.pre.pristine /\ TruthyObj(context)) => call.retObj = context
           ELSE /\ call.inv = {"merge"}
                /\ call.a1 = call.pre.stack[1]
                /\ call.a2 = context
                /\ call.retObj.data = MergeData(call.arg, call.pre.stack[1], context)

C8_Witness ==
    /\ call.op = "unwrap"
    /\ Len(call.pre.stack) = 1
    /\ call.arg = "origin"
    /\ TruthyObj(context)
    /\ call.pre.stack[1].data # context.data
    /\ call.retObj.data = context.data

\* C9: the context stack is never empty; its depth is one more than the number
\* of running branch delegates; only the entry of a delegate pushes (by one) and
\* only its return pops (by one); every other call leaves the depth alone.
C9_StackDepth ==
    /\ Len(contextStack) >= 1
    /\ Len(contextStack) = Len(frames) + 1
    /\ call.op \in {"withContext", "mapContext", "unwrap", "otherwise", "resolve"} =>
            Len(contextStack) = Len(call.pre.stack)
    /\ call.op \in {"matchCase", "selectCase", "forward"} =>
            /\ Len(contextStack) =
                    Len(call.pre.stack) + (IF "delegate" \in call.inv THEN 1 ELSE 0)
            /\ "delegate" \in call.inv => IsFunction(call.target)
    /\ call.op = "return" => Len(contextStack) = Len(call.pre.stack) - 1

C9_Witness ==
    /\ call.op = "return"
    /\ Len(call.pre.stack) = 3
    /\ Len(frames) = 1
    /\ Len(contextStack) = 2

\* C10: a satisfied matchCase whose target is a branch delegate commits
\* nothing itself, it only runs the delegate; the return of a delegate commits
\* nothing either, and after a delegate that committed nothing the parent's
\* later cases and otherwise are evaluated as on an unresolved evaluator.
C10_DelegateTargetCommitsNothing ==
    /\ (call.op = "matchCase" /\ ~Truthy(call.pre.mc) /\ call.sat /\ IsFunction(call.target)) =>
            /\ matchedCase = call.pre.mc
            /\ "delegate" \in call.inv
            /\ Len(frames) = Len(call.pre.stack)
    /\ call.op = "return" => matchedCase = call.pre.mc
    /\ (call.op = "return" /\ call.frame.commit = <<>>) => matchedCase = call.frame.mcEntry
    /\ (call.pre.after = "fallthrough" /\ call.op = "matchCase" /\ call.sat
            /\ ~IsFunction(call.target)) => matchedCase = call.target
    /\ (call.pre.after = "fallthrough" /\ call.op = "otherwise") => matchedCase = call.target

C10_Witness ==
    /\ call.pre.after = "fallthrough"
    /\ call.op = "matchCase"
    /\ call.sat
    /\ matchedCase = "B"

\* ------------------------------------------------ guards of a matchCase call
\* the call that just ended applied its target: it entered the delegate, or
\* stored the key in the case slot
Applied ==
    IF IsFunction(call.target)
    THEN /\ "delegate" \in call.inv
         /\ Len(contextStack) = Len(call.pre.stack) + 1
         /\ matchedCase = call.pre.mc
    ELSE /\ matchedCase = call.target
         /\ contextStack = call.pre.stack

\* the call that just ended left the case slot, the context stack and the
\* running delegates as they were
Untouched ==
    /\ matchedCase = call.pre.mc
    /\ contextStack = call.pre.stack
    /\ Len(frames) = Len(call.pre.stack) - 1
    /\ "delegate" \notin call.inv

\* a declared key succeeds: a key of the context by its value, a key the
\* context lacks only when the leaf is the literal undefined
KeySucceeds(leaf, c, key) ==
    IF key \in DOMAIN c.data
    THEN LeafHolds(leaf, c.data[key])
    ELSE leaf = Leaf(Undef)

PatternCall ==
    /\ call.op = "matchCase"
    /\ call.input.type = "object"
    /\ ~call.input.isNull
    /\ DOMAIN call.input.pattern # {}

\* C11 as stated: a non-empty pattern matches iff every declared key is a key
\* of the context and its leaf succeeds on the context's value, so that a
\* declared key the context lacks fails the pattern whatever the leaf.
C11_MissingKeyFails ==
    PatternCall =>
        (Applied <=> Satisfied(call.input, getContext(call.pre.stack, 0)))

\* C11, amended: a non-empty pattern matches iff every declared key succeeds
\* (AND over the keys; a literal leaf by identity with the context's value, a
\* number comparator by its test); a declared key the context lacks is read as
\* undefined: it fails every number comparator and every literal leaf except
\* the literal undefined, which it satisfies.  A pattern that does not match
\* leaves the evaluator untouched.
C11_PatternIsConjunction ==
    PatternCall =>
        LET c == getContext(call.pre.stack, 0)
            all == \A key \in DOMAIN call.input.pattern :
                        KeySucceeds(call.input.pattern[key], c, key)
        IN  /\ Applied <=> all
            /\ ~all => Untouched

C11_Witness ==
    /\ PatternCall
    /\ call.input.pattern = [k \in {"foo", "bar"} |-> IF k = "foo" THEN Leaf(Undef) ELSE Leaf(Num(2))]
    /\ context.data = [k \in {"bar"} |-> Num(2)]
    /\ matchedCase = "A"

\* C12: on an unresolved evaluator matchCase({}, key) commits key, whatever
\* the context: none given, an empty one, or one with keys.
C12_EmptyPatternMatches ==
    (/\ call.op = "matchCase"
     /\ call.input = PatternGuard(EmptyData)
     /\ ~Truthy(call.pre.mc)
     /\ ~IsFunction(call.target)) =>
        matchedCase = call.target

C12_Witness ==
    /\ call.op = "matchCase"
    /\ call.input = PatternGuard(EmptyData)
    /\ context = undefinedObj
    /\ call.pre.mc = U
    /\ matchedCase = "A"

\* C13: matchCase(null, target) never commits and never runs target as a
\* delegate, whatever the context; the case slot and the context stack are
\* what they were before the call.
C13_NullPatternNeverMatches ==
    (call.op = "matchCase" /\ call.input = NullGuard) =>
        /\ Untouched
        /\ call.inv = {}

C13_Witness ==
    /\ call.op = "matchCase"
    /\ call.input = NullGuard
    /\ IsFunction(call.target)
    /\ context.data = [k \in {"foo"} |-> Num(1)]
    /\ frames = <<>>

\* C14: the guard of matchCase is dispatched on its run-time shape: a boolean
\* matches iff it is true; a function is called on the current context and
\* matches iff its result is truthy; a record is matched structurally and
\* calls nothing; a guard of any other shape (undefined, string, number)
\* matches nothing and leaves the state unchanged.
C14_GuardDispatch ==
    (call.op = "matchCase" /\ ~Truthy(call.pre.mc)) =>
        LET c == getContext(call.pre.stack, 0)
            g == call.input
            holds ==
                CASE g.type = "boolean" -> g.b
                  [] g.type = "function" -> Predicate(g.f, c)
                  [] g.type = "object" ->
                        /\ ~g.isNull
                        /\ \A key \in DOMAIN g.pattern : KeySucceeds(g.pattern[key], c, key)
                  [] OTHER -> FALSE
        IN  /\ Applied <=> holds
            /\ ~holds => Untouched
            /\ "predicate" \in call.inv <=> g.type = "function"
            /\ g.type \notin {"boolean", "function", "object"} => call.inv = {}

C14_Witness ==
    /\ call.op = "matchCase"
    /\ call.input = StringGuard
    /\ IsFunction(call.target)
    /\ call.inv = {}
    /\ frames = <<>>

\* ------------------------------------------------------------- selectCase
SelectCall ==
    /\ call.op = "selectCase"
    /\ ~Truthy(call.pre.mc)
    /\ call.ret # "throw"

\* C15: selectCase(selector) without a case map on an unresolved evaluator
\* calls the selector on the current context; a falsy result (empty string, 0,
\* null, undefined) commits nothing and the calls that follow are evaluated as
\* before; a truthy result is stored as the case key.
C15_SelectWithoutMap ==
    /\ (SelectCall /\ call.map = NoMap) =>
            LET r == Selector(call.arg, getContext(call.pre.stack, 0))
            IN  /\ call.inv = {"selector"}
                /\ contextStack = call.pre.stack
                /\ matchedCase = (IF r \in {"", Zero, Null, U} THEN call.pre.mc ELSE r)
    /\ (call.pre.after = "selectMiss" /\ call.op = "otherwise") => matchedCase = call.target
    /\ (call.pre.after = "selectMiss" /\ call.op = "matchCase" /\ call.sat
            /\ call.ret # "throw" /\ ~IsFunction(call.target)) => matchedCase = call.target
    /\ (call.pre.after = "selectMiss" /\ call.op = "selectCase" /\ call.map = NoMap
            /\ call.arg = "selA") => matchedCase = "A"

C15_Witness ==
    /\ call.pre.after = "selectMiss"
    /\ call.op = "selectCase"
    /\ call.map = NoMap
    /\ call.arg = "selFoo"
    /\ matchedCase = "B"

\* C16: selectCase(selector, caseMap) with a truthy selector result r commits
\* nothing when caseMap has no entry for r or a falsy one; commits the mapped
\* key, not r, when the entry is a plain key; and when the entry is a branch
\* delegate runs it on a pushed copy of the top layer and commits nothing
\* itself.
C16_SelectWithMap ==
    (SelectCall /\ call.map # NoMap
        /\ Truthy(Selector(call.arg, getContext(call.pre.stack, 0)))) =>
        LET r == Selector(call.arg, getContext(call.pre.stack, 0))
            n == Len(call.pre.stack)
        IN  IF r \notin DOMAIN call.map \/ call.map[r] \in {"", Zero, Null, U}
            THEN Untouched
            ELSE IF call.map[r] = BranchDelegate
                 THEN /\ "delegate" \in call.inv
                      /\ matchedCase = call.pre.mc
                      /\ Len(frames) = n
                      /\ Len(contextStack) = n + 1
                      /\ SubSeq(contextStack, 1, n) = call.pre.stack
                      /\ contextStack[n + 1].data = call.pre.stack[n].data
                      /\ contextStack[n + 1].id \notin {call.pre.stack[i].id : i \in 1 .. n}
                 ELSE /\ matchedCase = call.map[r]
                      /\ contextStack = call.pre.stack
                      /\ "delegate" \notin call.inv

C16_Witness ==
    /\ SelectCall
    /\ call.arg = "selA"
    /\ call.map = [k \in {"A"} |-> "B"]
    /\ matchedCase = "B"

\* --------------------------------------------------- context operations
\* the layers below the top are what they were before the call
LowerLayersUnchanged ==
    /\ Len(contextStack) = Len(call.pre.stack)
    /\ \A i \in 1 .. Len(contextStack) - 1 : contextStack[i] = call.pre.stack[i]

\* C17: withContext(delta) with a null or absent delta leaves the top layer
\* as it is; otherwise the top layer becomes the shallow merge of the previous
\* top layer and delta: every key of delta has delta's value, every key only
\* in the previous layer keeps its value, and there is no other key.  No layer
\* below the top changes, and the case slot is left alone.
C17_WithContextMerges ==
    call.op = "withContext" =>
        LET prev == getContext(call.pre.stack, 0)
            top == getContext(contextStack, 0)
            delta == call.obj
        IN  /\ LowerLayersUnchanged
            /\ matchedCase = call.pre.mc
            /\ IF delta \in {nullObj, undefinedObj}
               THEN top = prev
               ELSE /\ DOMAIN top.data = DOMAIN prev.data \cup DOMAIN delta.data
                    /\ \A k \in DOMAIN delta.data : top.data[k] = delta.data[k]
                    /\ \A k \in DOMAIN prev.data \ DOMAIN delta.data :
                            top.data[k] = prev.data[k]

C17_Witness ==
    /\ call.op = "withContext"
    /\ call.obj = ExtFoo2
    /\ Len(contextStack) = 2
    /\ getContext(call.pre.stack, 0).data = [k \in {"bar"} |-> Num(1)]
    /\ getContext(contextStack, 0).data =
            [k \in {"foo", "bar"} |-> IF k = "foo" THEN Num(2) ELSE Num(1)]

\* the objects the caller made: the context given to matcher() and the
\* extensions given to withContext
CallerObjects == {o \in InitialContexts \cup Extensions : TruthyObj(o)}

\* every object the engine holds or hands out
HeldObjects ==
    {contextStack[i] : i \in 1 .. Len(contextStack)}
        \cup {call.retObj, call.a1, call.a2}

\* C18: the engine never changes an object of the caller: whatever object of
\* the caller the engine holds or hands out has the contents the caller gave
\* it; and the top layer after a withContext with an extension is a new
\* object: not the initial context, not the extension, and no layer that
\* existed before the call.
C18_CallerRecordsPreserved ==
    /\ \A h \in HeldObjects : \A o \in CallerObjects : h.id = o.id => h.data = o.data
    /\ (call.op = "withContext" /\ TruthyObj(call.obj)) =>
            LET top == getContext(contextStack, 0)
            IN  /\ top.id # context.id
                /\ top.id # call.obj.id
                /\ \A i \in 1 .. Len(call.pre.stack) : top.id # call.pre.stack[i].id

C18_Witness ==
    /\ call.op = "withContext"
    /\ call.obj = ExtFoo2
    /\ context = CtxFoo1
    /\ call.pre.pristine
    /\ getContext(call.pre.stack, 0) = context
    /\ getContext(contextStack, 0).data = ExtFoo2.data
    /\ getContext(contextStack, 0).data # context.data

\* C19: mapContext(mapper) replaces the top layer with what the mapper
\* returns for the previous top layer, and with nothing else: the key the
\* mapper does not return is gone, so a later pattern on it does not match;
\* the layers below the top and the case slot are unchanged.
C19_MapContextReplaces ==
    /\ (call.op = "mapContext" /\ call.ret # "throw") =>
            LET prev == getContext(call.pre.stack, 0)
                top == getContext(contextStack, 0)
            IN  /\ LowerLayersUnchanged
                /\ matchedCase = call.pre.mc
                /\ call.inv = {"mapper"}
                /\ call.arg = "identity" => top = prev
                /\ call.arg = "rename" =>
                        top.data = [k \in {"bar"} |-> Get(prev, "foo")]
    /\ (/\ call.op = "matchCase"
        /\ call.input = PatternGuard([k \in {"foo"} |-> Leaf(Num(1))])
        /\ call.ret # "throw"
        /\ "foo" \notin DOMAIN getContext(call.pre.stack, 0).data) => Untouched

C19_Witness ==
    /\ call.op = "mapContext"
    /\ call.arg = "rename"
    /\ Len(contextStack) = 2
    /\ getContext(call.pre.stack, 0).data = [k \in {"foo"} |-> Num(2)]
    /\ getContext(contextStack, 0).data = [k \in {"bar"} |-> Num(2)]

\* C20: in every reachable state the top layer of the context stack is a
\* record, never null or absent; for an evaluator made without a context it
\* is the empty record as long as no context operation was made.
C20_ContextIsRecord ==
    /\ TruthyObj(getContext(contextStack, 0))
    /\ (context = undefinedObj /\ ghost.pristine) =>
            getContext(contextStack, 0).data = EmptyData

\* ----------------------------------------------------------------- resolve
\* a resolve call with a result map, and the entry of the committed key
MapCall == call.op = "resolve" /\ call.resultMap.given
Entry == Lookup(call.resultMap.m, matchedCase)

\* C21: resolve(resultMap) without a fallback returns resultMap[committedKey]
\* for every committed key and every mapped value that is not callable, the
\* values 0, false and the empty string included.
C21_ResolveReturnsEntry ==
    (MapCall /\ call.fallback = U /\ matchedCase # U /\ ~IsFunction(Entry)) =>
        /\ call.ret = "value"
        /\ call.retVal = Entry

\* C22: when the entry resolve selects in the result map is a resolver, it is
\* called exactly once, with the current context and the committed key, and
\* resolve returns what it returns, not the resolver; the evaluator is left
\* as it was.
C22_ResolverIsCalled ==
    (MapCall /\ Entry \in Resolvers) =>
        /\ call.inv = {"resolver"}
        /\ call.calls = 1
        /\ call.a1 = getContext(contextStack, 0)
        /\ call.aKey = matchedCase
        /\ call.ret = "value"
        /\ call.retVal = Resolver(Entry, getContext(contextStack, 0), matchedCase)
        /\ call.retVal \notin Resolvers
        /\ matchedCase = call.pre.mc
        /\ contextStack = call.pre.stack

C22_Witness ==
    /\ MapCall
    /\ Entry = "resolverFoo"
    /\ context = CtxFoo1
    /\ call.a1.data = ExtFoo2.data
    /\ call.aKey = "B"
    /\ call.retVal = "r2"

\* C23: resolve(resultMap, fallback) uses the fallback exactly when the
\* committed key is absent from the result map or its entry is falsy: a
\* fallback that is a resolver is called with the current context and the
\* committed key and its result returned, any other fallback is returned as
\* it is; when the entry is truthy the fallback is neither called nor
\* returned.  (The claim is about a committed key; resolve with nothing
\* committed is C39.)
C23_FallbackIffNoEntry ==
    (MapCall /\ matchedCase # U) =>
        LET c == getContext(contextStack, 0)
            noEntry == matchedCase \notin DOMAIN call.resultMap.m
                            \/ call.resultMap.m[matchedCase] \in {"", Zero, False, U}
        IN  /\ call.ret = "value"
            /\ IF noEntry
               THEN IF call.fallback \in Resolvers
                    THEN /\ call.inv = {"fallback"}
                         /\ call.calls = 1
                         /\ call.a1 = c
                         /\ call.aKey = matchedCase
                         /\ call.retVal = Resolver(call.fallback, c, matchedCase)
                    ELSE /\ call.inv = {}
                         /\ call.retVal = call.fallback
               ELSE /\ "fallback" \notin call.inv
                    /\ call.calls <= 1
                    /\ call.retVal =
                            (IF Entry \in Resolvers THEN Resolver(Entry, c, matchedCase)
                             ELSE Entry)

C23_Witness ==
    /\ MapCall
    /\ matchedCase = "A"
    /\ Entry = Zero
    /\ call.fallback = "resolverKey"
    /\ call.inv = {"fallback"}
    /\ call.retVal = "A"

\* ---------------------------------------------------------------- chaining
\* the operations that return the evaluator; "return" is the end of the
\* forward, matchCase or selectCase call that entered a delegate
NonTerminalOps ==
    {"withContext", "mapContext", "forward", "matchCase", "selectCase", "otherwise", "return"}

\* C24: every non-terminal operation (withContext, mapContext, forward,
\* matchCase, selectCase, otherwise) returns the evaluator it was called on,
\* whether or not its guard matched, whether or not a case was resolved, and
\* for a call that entered a delegate whatever the delegate did.
C24_ReturnsSameEvaluator ==
    call.op \in NonTerminalOps => call.ret = "this"

\* ------------------------------------------------------------ independence
\* C25: two evaluators made by separate matcher(...) calls, even on the same
\* context object, share no state: whatever call is made on one, the case
\* slot and the context stack of the other are what they were.
C25_EvaluatorsIndependent ==
    [][call'.op # "switch" => peer' = peer]_vars

C25_Witness ==
    /\ call.op = "withContext"
    /\ context = CtxFoo1
    /\ peer.mc = "A"
    /\ peer.stack = <<context>>
    /\ matchedCase = U
    /\ getContext(contextStack, 0).data = ExtFoo2.data

\* ------------------------------------------------------ silent non-matches
\* C26: a matchCase with an absent (undefined) guard, a matchCase with a null
\* pattern and a selectCase whose selector returns a falsy value are no
\* errors: each returns the evaluator without raising, and leaves the case
\* slot and the context stack as they were.
C26_SilentNonMatch ==
    LET c == getContext(call.pre.stack, 0)
        silent ==
            \/ call.op = "matchCase" /\ call.input \in {UndefinedGuard, NullGuard}
            \/ /\ call.op = "selectCase"
               /\ ~SelectorThrows(call.arg, c)
               /\ Selector(call.arg, c) \in {"", Zero, Null, U}
    IN  silent =>
            /\ call.ret = "this"
            /\ Untouched

C26_Witness ==
    /\ call.op = "matchCase"
    /\ call.input = UndefinedGuard
    /\ call.pre.mc = U
    /\ IsFunction(call.target)
    /\ Len(contextStack) = 2
    /\ call.ret = "this"

\* -------------------------------------------------------------- comparators
\* C27: a pattern leaf that is a comparator (an object with test) is not
\* compared by identity: its key succeeds iff test(the context's value for the
\* key) is true, and it combines by AND with the other declared keys; when the
\* comparator rejects the value the chain falls through to otherwise.
C27_ComparatorLeaf ==
    /\ (PatternCall /\ \E key \in DOMAIN call.input.pattern :
                            call.input.pattern[key].cmp = "number") =>
            LET c == getContext(call.pre.stack, 0)
                ok(key) ==
                    IF call.input.pattern[key].cmp = "number"
                    THEN numberTest(call.input.pattern[key].opt, Get(c, key))
                    ELSE Get(c, key) = call.input.pattern[key].v
                all == \A key \in DOMAIN call.input.pattern : ok(key)
            IN  /\ Applied <=> all
                /\ ~all => Untouched
    /\ (call.pre.after = "comparatorMiss" /\ call.op = "otherwise") =>
            matchedCase = call.target

C27_Witness ==
    /\ PatternCall
    /\ call.input.pattern =
            [k \in {"foo", "bar"} |-> IF k = "foo" THEN NumberLeaf(MinOnly(1)) ELSE Leaf(Num(2))]
    /\ context.data = [k \in {"foo", "bar"} |-> IF k = "foo" THEN Num(1) ELSE Num(2)]
    /\ matchedCase = "A"

\* C29: literal pattern leaves are compared by identity of value: the leaf NaN
\* matches the context value NaN, the leaf 0 does not match the context value
\* -0, nor the leaf -0 the context value +0.
C29_LiteralIdentity ==
    (PatternCall /\ DOMAIN call.input.pattern = {"foo"}
        /\ call.input.pattern["foo"].cmp = "none") =>
        LET leaf == call.input.pattern["foo"].v
            value == Get(getContext(call.pre.stack, 0), "foo")
        IN  /\ (leaf = NaN /\ value = NaN) => Applied
            /\ ({leaf, value} = {Num(0), NegZero}) => Untouched
            /\ (leaf.t = value.t /\ leaf.n = value.n) <=> Applied

C29_Witness ==
    /\ PatternCall
    /\ call.input.pattern = [k \in {"foo"} |-> Leaf(NaN)]
    /\ context.data = [k \in {"foo"} |-> NaN]
    /\ matchedCase = "A"

\* C28: over integers, matcher.number({min, max}).test(v) is true iff v is a
\* number and (min is undefined or v >= min) and (max is undefined or
\* v <= max): both bounds are inclusive, a value that is no number always
\* fails, and without options every number passes.
C28_NumberComparator ==
    LET v == probe.value
        o == probe.options
        isInteger == v.t \in {"number", "-0"}
    IN  /\ (probe.done /\ v.t \in {"undefined", "string"}) => ~probe.result
        /\ (probe.done /\ isInteger) =>
                (probe.result <=> /\ (o.hasMin => v.n >= o.min)
                                  /\ (o.hasMax => v.n <= o.max))
        /\ (probe.done /\ ~o.given /\ v.t \in {"number", "-0", "NaN"}) => probe.result

C28_Witness ==
    /\ probe.done
    /\ probe.options.hasMin /\ probe.options.min = 1
    /\ probe.options.hasMax /\ probe.options.max = 1
    /\ probe.value = Num(1)
    /\ probe.result

RootMerge == call.op = "unwrap" /\ Len(call.pre.stack) = 1 /\ call.arg # "none"

\* the function resolve calls for the committed key, U when it calls none
Resolving(resultMap, fallback, key) ==
    LET entry == Lookup(resultMap.m, ToPropertyKey(key))
        f == IF Truthy(entry) THEN entry ELSE fallback
    IN  IF resultMap.given /\ f \in Resolvers THEN f ELSE U

\* C32: unwrap(mergeDelegate) at the root replaces the root context with the
\* delegate's result, and the call that follows sees that value: a guard is
\* evaluated on it, a resolver receives it, and a second unwrap(mergeDelegate)
\* merges it with the context given to matcher() again.  unwrap() without a
\* delegate at the root returns the root context and changes no state, so
\* repeating it changes nothing either.
C32_RootUnwrapWritesBack ==
    [][/\ (call'.op = "unwrap" /\ Len(contextStack) = 1) =>
            /\ matchedCase' = matchedCase
            /\ frames' = frames
            /\ IF call'.arg = "none"
               THEN /\ contextStack' = contextStack
                    /\ call'.retObj = contextStack[1]
                    /\ call'.inv = {}
               ELSE /\ contextStack' = <<call'.retObj>>
                    /\ call'.a1 = contextStack[1]
                    /\ call'.a2 = context
                    /\ call'.retObj.data = MergeData(call'.arg, contextStack[1], context)
       /\ RootMerge =>
            LET merged == call.retObj
                f == Resolving(call'.resultMap, call'.fallback, matchedCase)
            IN  /\ contextStack = <<merged>>
                /\ (call'.op = "matchCase" /\ ~Truthy(matchedCase)) =>
                        IF \/ PredicateThrows(call'.input.f, merged)
                           \/ call'.input.type = "object" /\ IsNullish(merged)
                        THEN call'.ret = "throw" /\ matchedCase' = matchedCase
                        ELSE matchedCase' =
                                (IF Satisfied(call'.input, merged) THEN call'.target
                                 ELSE matchedCase)
                /\ (call'.op = "resolve" /\ f # U) =>
                        /\ call'.a1 = merged
                        /\ IF ResolverThrows(f, merged)
                           THEN call'.ret = "throw"
                           ELSE call'.retVal = Resolver(f, merged, matchedCase)
                /\ (call'.op = "unwrap" /\ call'.arg # "none") =>
                        /\ call'.a1 = merged
                        /\ call'.a2 = context
                        /\ call'.retObj.data = MergeData(call'.arg, merged, context)
                        /\ contextStack' = <<call'.retObj>>
                /\ (call'.op = "unwrap" /\ call'.arg = "none") =>
                        /\ call'.retObj = merged
                        /\ contextStack' = <<merged>>
      ]_vars

\* matcher({ foo: 1 }).withContext({ foo: 2 }), then unwrap((c, o) => ({ ...o }))
\* makes a new root { foo: 1 } and the pattern { foo: 1 } matches it
C32_Witness ==
    /\ call.op = "matchCase"
    /\ context = CtxFoo1
    /\ call.pre.stack = <<Obj(11, CtxFoo1.data)>>
    /\ call.input = PatternGuard([k \in {"foo"} |-> Leaf(Num(1))])
    /\ matchedCase = "A"
    /\ nOps = 3

\* ------------------------------------------------------- unwrap in a branch
\* C33: unwrap promotes a context by exactly one level.  Called in a branch
\* nested two or more levels deep it replaces the layer of the directly
\* enclosing branch and no other: the root and every other ancestor layer, and
\* the branch's own layer, are what they were.  When the enclosing branch then
\* returns without having called unwrap itself, its parent's layer is the
\* object it was when that branch was entered.
C33_UnwrapOneLevel ==
    /\ (call.op = "unwrap" /\ Len(call.pre.stack) >= 3) =>
            LET n == Len(call.pre.stack)
            IN  /\ Len(contextStack) = n
                /\ contextStack[n - 1] = call.retObj
                /\ \A i \in 1 .. n : i # n - 1 => contextStack[i] = call.pre.stack[i]
    /\ (call.op = "return" /\ call.frame.inner /\ ~call.frame.unwrapped) =>
            /\ getContext(contextStack, 0) = call.frame.entry
            /\ \A i \in 1 .. Len(contextStack) : contextStack[i] = call.pre.stack[i]

C33_Witness ==
    /\ call.op = "unwrap"
    /\ call.arg = "assign"
    /\ Len(call.pre.stack) = 3
    /\ context = CtxFoo1
    /\ contextStack[1] = context
    /\ contextStack[2] = call.retObj
    /\ contextStack[2] # call.pre.stack[2]
    /\ contextStack[3] = call.pre.stack[3]

\* C34: unwrap does not leave the branch.  Called in a branch it changes
\* neither the depth of the stack, nor the running delegates, nor the case
\* slot, nor the branch's own top layer; the layer is popped only when the
\* delegate returns.  What the branch does to its context after its last
\* unwrap is discarded at the return: the parent's layer is then the value the
\* last unwrap wrote.
C34_UnwrapStaysInBranch ==
    /\ (call.op = "unwrap" /\ Len(call.pre.stack) > 1) =>
            /\ Len(contextStack) = Len(call.pre.stack)
            /\ Len(frames) = Len(call.pre.stack) - 1
            /\ matchedCase = call.pre.mc
            /\ getContext(contextStack, 0) = getContext(call.pre.stack, 0)
    /\ (call.op = "return" /\ call.frame.unwrapped) =>
            /\ Len(contextStack) = Len(call.pre.stack) - 1
            /\ getContext(contextStack, 0) = call.frame.last
            /\ getContext(contextStack, 0) = getContext(call.pre.stack, 2)

\* forward(b => { b.unwrap(); b.withContext({ foo: 2 }) }) on { foo: 1 }: the
\* parent keeps { foo: 1 }
C34_Witness ==
    /\ call.op = "return"
    /\ call.frame.unwrapped
    /\ context = CtxFoo1
    /\ call.frame.last = Obj(10, CtxFoo1.data)
    /\ getContext(call.pre.stack, 0).data = ExtFoo2.data
    /\ contextStack = <<call.frame.last>>

C36_BranchLayer ==
    LET n == Len(call.pre.stack)
        top == getContext(call.pre.stack, 0)
    IN  /\ "delegate" \in call.inv =>
                /\ Len(contextStack) = n + 1
                /\ SubSeq(contextStack, 1, n) = call.pre.stack
                /\ contextStack[n + 1].data = top.data
                /\ \A i \in 1 .. n : contextStack[n + 1].id # call.pre.stack[i].id
                /\ \A o \in CallerObjects : contextStack[n + 1].id # o.id
        /\ (call.op \in {"withContext", "mapContext", "matchCase", "selectCase"} /\ n > 1) =>
                \A i \in 1 .. n - 1 : contextStack[i] = call.pre.stack[i]
        /\ (call.op = "matchCase" /\ ~Truthy(call.pre.mc) /\ call.ret # "throw"
                /\ ~IsFunction(call.target)) =>
                matchedCase = (IF Satisfied(call.input, top) THEN call.target ELSE call.pre.mc)
        /\ (call.op = "selectCase" /\ ~Truthy(call.pre.mc) /\ call.ret # "throw") =>
                LET target == Selected(call.arg, call.map, top)
                IN  IF IsFunction(target)
                    THEN "delegate" \in call.inv
                    ELSE matchedCase = (IF target # U THEN target ELSE call.pre.mc)
        /\ call.op = "return" =>
                /\ contextStack = SubSeq(call.pre.stack, 1, n - 1)
                /\ getContext(contextStack, 0) = getContext(call.pre.stack, 2)

\* matcher({ foo: 1 }).forward(b => b.withContext({ foo: 2 }).matchCase({ foo: 1 }, "A")):
\* the guard reads the branch layer { foo: 2 }, not the parent's { foo: 1 }
C36_Witness ==
    /\ call.op = "matchCase"
    /\ call.input = PatternGuard([k \in {"foo"} |-> Leaf(Num(1))])
    /\ call.target = "A"
    /\ call.pre.stack[1] = CtxFoo1
    /\ Len(call.pre.stack) = 2
    /\ call.pre.stack[2].data = ExtFoo2.data
    /\ contextStack = call.pre.stack
    /\ matchedCase = U

\* ------------------------------------------------- context after commitment
\* C37: commitment freezes the case slot, not the context.  After a case is
\* committed withContext and mapContext leave the slot alone and still change
\* the current context, and a resolver called by resolve gets the context as
\* it is when resolve is called, not as it was when the case was committed.
C37_ContextAfterCommit ==
    LET prev == getContext(call.pre.stack, 0)
        top == getContext(contextStack, 0)
        f == Resolving(call.resultMap, call.fallback, matchedCase)
    IN  /\ (call.op = "withContext" /\ Truthy(call.pre.mc)) =>
                /\ matchedCase = call.pre.mc
                /\ TruthyObj(call.obj) => top.data = Spread(prev, call.obj) /\ top # prev
        /\ (call.op = "mapContext" /\ Truthy(call.pre.mc) /\ call.ret # "throw") =>
                /\ matchedCase = call.pre.mc
                /\ call.arg = "rename" =>
                        top.data = [k \in {"bar"} |-> Get(prev, "foo")] /\ top # prev
        /\ (call.op = "resolve" /\ f # U) =>
                /\ call.a1 = top
                /\ call.aKey = matchedCase
                /\ IF ResolverThrows(f, top)
                   THEN call.ret = "throw"
                   ELSE call.ret = "value" /\ call.retVal = Resolver(f, top, matchedCase)

\* matcher({ foo: 1 }).otherwise("B").withContext({ foo: 2 }).resolve({ B: c => ... }):
\* the resolver sees foo = 2
C37_Witness ==
    /\ call.op = "resolve"
    /\ call.pre.after = "lateContext"
    /\ nOps = 2
    /\ context = CtxFoo1
    /\ matchedCase = "B"
    /\ Entry = "resolverFoo"
    /\ call.a1.data = ExtFoo2.data
    /\ call.retVal = "r2"

\* ------------------------------------------------------- resolve reads only
\* C38: resolve is read-only.  In none of its forms (no argument, a result
\* map, a result map and a fallback) does it change the case slot, the context
\* stack or the running delegates; a resolve that directly follows a resolve
\* with the same arguments returns the same result; and the call made after a
\* resolve starts from the state the evaluator had before the resolve.
C38_ResolveReadOnly ==
    [][/\ call'.op = "resolve" =>
            /\ matchedCase' = matchedCase
            /\ contextStack' = contextStack
            /\ frames' = frames
            /\ nOps' = nOps
       /\ (call.op = "resolve" /\ call'.op = "resolve"
                /\ call'.resultMap = call.resultMap /\ call'.fallback = call.fallback) =>
            /\ call'.ret = call.ret
            /\ call'.retKey = call.retKey
            /\ call'.retVal = call.retVal
            /\ call'.a1 = call.a1
            /\ call'.aKey = call.aKey
       /\ call.op = "resolve" =>
            /\ call'.pre.mc = call.pre.mc
            /\ call'.pre.stack = call.pre.stack
      ]_vars

\* resolve({}, c => ...) after otherwise("A") on { foo: 2 }: the fallback is
\* called and nothing changes
C38_Witness ==
    /\ call.op = "resolve"
    /\ call.resultMap = ResultMap(NoMap)
    /\ call.fallback = "resolverFoo"
    /\ call.inv = {"fallback"}
    /\ call.retVal = "r2"
    /\ call.pre.mc = "A"
    /\ matchedCase = "A"
    /\ contextStack = call.pre.stack

\* ------------------------------------------------- resolve without a case
\* C39: resolve(resultMap, fallback) on an evaluator where nothing was
\* committed returns the fallback, or, when the fallback is callable, the
\* result of calling it with the current context and undefined as the key;
\* resolve(resultMap) without a fallback then returns undefined.
C39_NothingCommitted ==
    (MapCall /\ matchedCase = U) =>
        LET top == getContext(contextStack, 0)
        IN  IF call.fallback \in Resolvers
            THEN /\ call.inv = {"fallback"}
                 /\ call.calls = 1
                 /\ call.a1 = top
                 /\ call.aKey = U
                 /\ call.ret = "value"
                 /\ call.retVal = Resolver(call.fallback, top, U)
            ELSE /\ call.inv = {}
                 /\ call.ret = "value"
                 /\ call.retVal = call.fallback

====
